---- MODULE Spec2Model ----
(***************************************************************************)
(* Model of src/wrapper/main.rs: the panel multiplexer (Panel,             *)
(* Multiplexer, its event loop and key dispatch), the terminal-handoff     *)
(* launch of the embedded payload, and the captured launch functions       *)
(* run_from_memory_or_temp / run_from_memory_linux / run_from_memory_macos *)
(* / run_from_temp_file / create_temp_executable.                          *)
(***************************************************************************)
EXTENDS Integers, Sequences, FiniteSets, TLC

VARIABLES
    panels,         \* Multiplexer.panels: id -> Panel
    keyOrder,       \* iteration order of the HashMap panels.keys()
    active_panel,   \* Multiplexer.active_panel
    next_panel_id,  \* Multiplexer.next_panel_id
    terminal_size,  \* Multiplexer.terminal_size
    should_quit,    \* Multiplexer.should_quit
    rawMode,        \* the terminal: TRUE when raw mode is enabled
    pc,             \* position of the process
    events,         \* number of input events read so far
    launches,       \* number of launch calls started so far
    platform,       \* cfg(target_os)
    pid,            \* std::process::id()
    files,          \* temporary-directory paths that exist on disk
    call,           \* the launch call in flight, or the last one
    visits,         \* focus values taken by switch_to_next_panel since the
                    \* last panel creation (first entry: the focus then)
    key,            \* the event event::read() returned last
    appended        \* every line passed to add_line on panel 0, in call
                    \* order (kept when add_line is exercised on its own)

vars == <<panels, keyOrder, active_panel, next_panel_id, terminal_size,
          should_quit, rawMode, pc, events, launches, platform, pid, files, call,
          visits, key, appended>>

muxVars == <<panels, keyOrder, active_panel, next_panel_id, terminal_size,
             should_quit, visits>>

\* what no step of the multiplexer or of a launch changes
envVars == <<platform, pid, appended>>

countVars == <<events, launches>>

(***************************************************************************)
(* Bounds                                                                  *)
(***************************************************************************)
MaxEvents == 4
MaxPanels == 3
MaxPid == 2
MaxLaunches == 1
MaxAdds == 4

(***************************************************************************)
(* Program constants                                                       *)
(***************************************************************************)
MaxContent == 1000

Platforms == {"linux", "macos", "other"}
IsUnix == platform \in {"linux", "macos"}
Sizes == {<<80, 24>>, <<120, 40>>}
Chars == {"a", "q"}
Modifiers == {"NONE", "CONTROL"}

\* crossterm Event values: key events by code, character and modifiers
NoKey == [code |-> "None", ch |-> "", modifiers |-> "NONE"]
KeyOf(code, ch, modifiers) == [code |-> code, ch |-> ch, modifiers |-> modifiers]
\* the three chords handle_input matches before its Enter and Char arms
IsChord(k) ==
    k.code = "Char" /\ k.modifiers = "CONTROL" /\ k.ch \in {"q", "c", "n"}

(***************************************************************************)
(* Generic helpers                                                         *)
(***************************************************************************)
Perms(S) ==
    {s \in [1..Cardinality(S) -> S] : \A i, j \in DOMAIN s : i # j => s[i] # s[j]}

Position(s, v) == CHOOSE i \in DOMAIN s : s[i] = v

(***************************************************************************)
(* Panel                                                                   *)
(***************************************************************************)
PanelNew(id, title) ==
    [id |-> id, title |-> title, content |-> <<>>, is_active |-> FALSE,
     panel_type |-> "Manual"]

PanelNewBinary(id, title) ==
    [id |-> id, title |-> title, content |-> <<>>, is_active |-> FALSE,
     panel_type |-> "BinaryProcess"]

AddLine_dropNewest(panel, line) ==
    LET pushed == Append(panel.content, line)
    IN  [panel EXCEPT !.content =
            IF Len(pushed) > MaxContent THEN SubSeq(pushed, 1, MaxContent) ELSE pushed]

\* Panel::add_line: push, then drop the first line when over capacity.
AddLine(panel, line) ==
    LET pushed == Append(panel.content, line)
    IN  [panel EXCEPT !.content =
            IF Len(pushed) > MaxContent THEN Tail(pushed) ELSE pushed]

\* self.panels.get_mut(&self.active_panel) followed by add_line
AddLineToActive(ps, line) ==
    IF active_panel \in DOMAIN ps
    THEN [ps EXCEPT ![active_panel] = AddLine(ps[active_panel], line)]
    ELSE ps

(***************************************************************************)
(* Results of the launch functions: Result<String, Box<dyn Error>> and     *)
(* Result<(), Box<dyn Error>>.  msg is the message as a sequence of        *)
(* string tokens, text the decoded bytes formatted into it.                *)
(***************************************************************************)
NoneR == [tag |-> "None", msg |-> <<>>, text |-> <<>>]
Ok(text) == [tag |-> "Ok", msg |-> <<>>, text |-> text]
Err(msg, text) == [tag |-> "Err", msg |-> msg, text |-> text]
IsErr(r) == r.tag = "Err"
IsOk(r) == r.tag = "Ok"

\* What a child process did: its exit code and the bytes it wrote.
NoChild == [ran |-> FALSE, code |-> 0, stdout |-> <<>>, stderr |-> <<>>]
Child(code, out, err) == [ran |-> TRUE, code |-> code, stdout |-> out, stderr |-> err]

\* The launch call record: nothing in flight.
NoCall ==
    [mode |-> "none", log |-> <<>>, created |-> {}, anon |-> NoneR,
     temp |-> NoneR, result |-> NoneR, returned |-> FALSE,
     finished |-> FALSE, stderr |-> <<>>, fds |-> {}, children |-> 0,
     anonChild |-> NoChild, tempChild |-> NoChild]

NewCall(mode) == [NoCall EXCEPT !.mode = mode]

\* one entry of the call's operation log: the operation and its outcome
Op(name, ok) == [op |-> name, ok |-> ok]

IoErr(what) == Err(<<"io error: ", what>>, <<>>)

(***************************************************************************)
(* The temporary executable                                                *)
(***************************************************************************)
ExitCodes == {0, 1, 2}

TempPath_noPid(p) == "/tmp/" \o "embedded_go_binary"

\* env::temp_dir().join(format!("embedded_go_binary_{}", std::process::id()))
TempPath(p) == "/tmp/" \o "embedded_go_binary_" \o ToString(p)

\* The steps of create_temp_executable in order; the permission steps exist
\* only under cfg(unix).
CreateSteps(unix) ==
    IF unix THEN <<"create", "write_all", "sync_all", "metadata", "set_permissions">>
    ELSE <<"create", "write_all", "sync_all">>

\* The operations create_temp_executable performs when step number failAt
\* fails (0: none fails): every step before it succeeds, that step returns
\* Err through `?`, and nothing after it runs.
CreateLog(unix, failAt) ==
    LET steps == CreateSteps(unix)
        n == IF failAt = 0 THEN Len(steps) ELSE failAt
    IN  [i \in 1..n |-> Op(steps[i], i # failAt)]

\* Result<PathBuf> of create_temp_executable
CreateResult(unix, failAt) ==
    IF failAt = 0 THEN Ok(<<>>) ELSE IoErr(CreateSteps(unix)[failAt])

\* The file exists afterwards when File::create succeeded; no step of
\* create_temp_executable removes it.
CreateLeavesFile(failAt) == failAt # 1

(***************************************************************************)
(* Multiplexer                                                             *)
(***************************************************************************)
\* Multiplexer::create_binary_panel applied to the panel map ps
CreateBinaryPanel(ps, nid) ==
    LET p0 == PanelNewBinary(nid, "Welcome to OpenCode")
        p1 == [p0 EXCEPT !.is_active = TRUE]
        p2 == AddLine(p1, <<"Press Enter to start OpenCode, Ctrl+C to switch panels">>)
        p3 == AddLine(p2, <<"When binary is running, it will take full terminal control">>)
    IN  (nid :> p3) @@ ps

\* Multiplexer::create_manual_panel applied to the panel map ps
CreateManualPanel(ps, nid, title) ==
    LET p0 == PanelNew(nid, title)
        p1 == AddLine(p0, <<"Manual panel created. Type commands or notes here.">>)
        p2 == AddLine(p1, <<"Use Ctrl+C to switch panels, Ctrl+N for new panel, Ctrl+Q to quit.">>)
    IN  (nid :> p2) @@ ps

NextIdx_skip(current_idx, len) == (current_idx + 2) % len

\* next_idx = (current_idx + 1) % panel_ids.len(), indices from 0
NextIdx(current_idx, len) == (current_idx + 1) % len

\* the value of self.active_panel after the position lookup
NextActive(panel_ids, active) ==
    IF \E i \in DOMAIN panel_ids : panel_ids[i] = active
    THEN panel_ids[NextIdx(Position(panel_ids, active) - 1, Len(panel_ids)) + 1]
    ELSE active

Deactivate_skip(ps, id) == ps

\* the first get_mut: current.is_active = false
Deactivate(ps, id) ==
    IF id \in DOMAIN ps THEN [ps EXCEPT ![id].is_active = FALSE] ELSE ps

Activate_skip(ps, id) == ps

\* the last get_mut: next.is_active = true
Activate(ps, id) ==
    IF id \in DOMAIN ps THEN [ps EXCEPT ![id].is_active = TRUE] ELSE ps

\* Multiplexer::switch_to_next_panel
SwitchToNextPanel ==
    LET next == NextActive(keyOrder, active_panel)
    IN  /\ active_panel' = next
        /\ panels' = Activate(Deactivate(panels, active_panel), next)
        /\ visits' = Append(visits, next)
        /\ UNCHANGED <<keyOrder, next_panel_id, terminal_size, should_quit>>

(***************************************************************************)
(* Initial state: Multiplexer::new() has returned Ok, or the process is    *)
(* about to call one of the captured launch functions.                     *)
(***************************************************************************)
Init ==
    /\ panels = CreateBinaryPanel(<<>>, 0)
    /\ keyOrder = <<0>>
    /\ active_panel = 0
    /\ next_panel_id = 1
    /\ terminal_size = <<80, 24>>
    /\ should_quit = FALSE
    /\ rawMode = FALSE
    /\ pc \in {"run", "launch"}
    /\ events = 0
    /\ launches = 0
    /\ platform \in Platforms
    \* the multiplexer is compiled per cfg(unix) only: linux stands for
    \* both unix targets there
    /\ (pc = "run" => platform # "macos")
    /\ pid \in 1..MaxPid
    /\ files = {}
    /\ call = NoCall
    /\ visits = <<0>>
    /\ key = NoKey
    /\ appended = <<>>

(***************************************************************************)
(* Multiplexer::run                                                        *)
(***************************************************************************)
\* enable_raw_mode()?; execute!(stdout, Clear(All))?
RunStart ==
    /\ pc = "run"
    /\ \E enableOk, clearOk \in BOOLEAN :
          /\ rawMode' = enableOk
          /\ pc' = IF enableOk /\ clearOk THEN "draw" ELSE "run_err"
    /\ UNCHANGED <<muxVars, envVars, key, countVars, files, call>>

Draw_noQuitCheck ==
    /\ pc = "draw"
    /\ \E drawOk \in BOOLEAN :
          pc' = IF ~drawOk THEN "run_err" ELSE "poll"
    /\ UNCHANGED <<muxVars, envVars, key, rawMode, countVars, files, call>>

\* self.draw(&mut stdout)?; if self.should_quit { break; }
Draw ==
    /\ pc = "draw"
    /\ \E drawOk \in BOOLEAN :
          pc' = IF ~drawOk THEN "run_err"
                ELSE IF should_quit THEN "break" ELSE "poll"
    /\ UNCHANGED <<muxVars, envVars, key, rawMode, countVars, files, call>>

\* event::poll(100ms)? returned false
PollTimeout ==
    /\ pc = "poll"
    /\ pc' = "draw"
    /\ UNCHANGED <<muxVars, envVars, key, rawMode, countVars, files, call>>

\* event::poll(..)? or event::read()? returned Err
PollError ==
    /\ pc = "poll"
    /\ pc' = "run_err"
    /\ UNCHANGED <<muxVars, envVars, key, rawMode, countVars, files, call>>

RunExit_keepRaw ==
    /\ pc = "break"
    /\ \E disableOk, clearOk \in BOOLEAN :
          /\ rawMode' = rawMode
          /\ pc' = IF disableOk /\ clearOk THEN "exited" ELSE "run_err"
    /\ UNCHANGED <<muxVars, envVars, key, countVars, files, call>>

\* after the loop: disable_raw_mode()?; execute!(Clear, MoveTo)?; println!
RunExit ==
    /\ pc = "break"
    /\ \E disableOk, clearOk \in BOOLEAN :
          /\ rawMode' = IF disableOk THEN FALSE ELSE rawMode
          /\ pc' = IF disableOk /\ clearOk THEN "exited" ELSE "run_err"
    /\ UNCHANGED <<muxVars, envVars, key, countVars, files, call>>

(***************************************************************************)
(* Multiplexer::handle_input, one action per match arm                     *)
(***************************************************************************)
ReadEvent(k) ==
    /\ pc = "poll"
    /\ events < MaxEvents
    /\ events' = events + 1
    /\ key' = k

\* Ctrl+Q
KeyCtrlQ ==
    /\ ReadEvent(KeyOf("Char", "q", "CONTROL"))
    /\ should_quit' = TRUE
    /\ pc' = "draw"
    /\ UNCHANGED <<panels, keyOrder, active_panel, next_panel_id,
                   terminal_size, visits, envVars, rawMode, launches, files, call>>

\* Ctrl+C
KeyCtrlC ==
    /\ ReadEvent(KeyOf("Char", "c", "CONTROL"))
    /\ SwitchToNextPanel
    /\ pc' = "draw"
    /\ UNCHANGED <<envVars, rawMode, launches, files, call>>

KeyCtrlN_noIncrement ==
    /\ ReadEvent(KeyOf("Char", "n", "CONTROL"))
    /\ Cardinality(DOMAIN panels) < MaxPanels
    /\ panels' = CreateManualPanel(panels, next_panel_id,
                                   "Panel " \o ToString(next_panel_id))
    /\ keyOrder' \in Perms(DOMAIN panels')
    /\ next_panel_id' = next_panel_id
    /\ visits' = <<active_panel>>
    /\ pc' = "draw"
    /\ UNCHANGED <<active_panel, terminal_size, should_quit, envVars,
                   rawMode, launches, files, call>>

\* Ctrl+N: create_manual_panel(format!("Panel {}", next_panel_id))
KeyCtrlN ==
    /\ ReadEvent(KeyOf("Char", "n", "CONTROL"))
    /\ Cardinality(DOMAIN panels) < MaxPanels
    /\ panels' = CreateManualPanel(panels, next_panel_id,
                                   "Panel " \o ToString(next_panel_id))
    /\ keyOrder' \in Perms(DOMAIN panels')
    /\ next_panel_id' = next_panel_id + 1
    /\ visits' = <<active_panel>>
    /\ pc' = "draw"
    /\ UNCHANGED <<active_panel, terminal_size, should_quit, envVars,
                   rawMode, launches, files, call>>

KeyEnterManual_launch ==
    /\ ReadEvent(KeyOf("Enter", "", "NONE"))
    /\ active_panel \in DOMAIN panels
    /\ panels[active_panel].panel_type = "Manual"
    /\ launches < MaxLaunches
    /\ launches' = launches + 1
    /\ call' = NewCall("handoff")
    /\ pc' = "handoff"
    /\ UNCHANGED <<muxVars, envVars, rawMode, files>>

\* Enter on a Manual panel
KeyEnterManual ==
    /\ ReadEvent(KeyOf("Enter", "", "NONE"))
    /\ active_panel \in DOMAIN panels
    /\ panels[active_panel].panel_type = "Manual"
    /\ panels' = AddLineToActive(panels, <<">>> Enter pressed">>)
    /\ pc' = "draw"
    /\ UNCHANGED <<keyOrder, active_panel, next_panel_id, terminal_size,
                   should_quit, visits, envVars, rawMode, launches, files, call>>

KeyChar_anyPanel ==
    /\ \E c \in Chars, m \in Modifiers :
          /\ ~IsChord(KeyOf("Char", c, m))
          /\ ReadEvent(KeyOf("Char", c, m))
          /\ panels' = AddLineToActive(panels, <<"Input: ", c>>)
    /\ pc' = "draw"
    /\ UNCHANGED <<keyOrder, active_panel, next_panel_id, terminal_size,
                   should_quit, visits, envVars, rawMode, launches, files, call>>

\* KeyCode::Char(c) that matched none of the chords
KeyChar ==
    /\ \E c \in Chars, m \in Modifiers :
          /\ ~IsChord(KeyOf("Char", c, m))
          /\ ReadEvent(KeyOf("Char", c, m))
          /\ panels' = IF /\ active_panel \in DOMAIN panels
                          /\ panels[active_panel].panel_type = "Manual"
                       THEN AddLineToActive(panels, <<"Input: ", c>>)
                       ELSE panels
    /\ pc' = "draw"
    /\ UNCHANGED <<keyOrder, active_panel, next_panel_id, terminal_size,
                   should_quit, visits, envVars, rawMode, launches, files, call>>

\* any other key: the `_ => {}` arm, and non-key, non-resize events
KeyOther ==
    /\ ReadEvent(KeyOf("Other", "", "NONE"))
    /\ pc' = "draw"
    /\ UNCHANGED <<muxVars, envVars, rawMode, launches, files, call>>

\* Event::Resize(width, height): the window changes to another size
Resize ==
    /\ ReadEvent(KeyOf("Resize", "", "NONE"))
    /\ terminal_size' \in Sizes \ {terminal_size}
    /\ pc' = "draw"
    /\ UNCHANGED <<panels, keyOrder, active_panel, next_panel_id,
                   should_quit, visits, envVars, rawMode, launches, files, call>>

(***************************************************************************)
(* Decoding of the child's output: String::from_utf8 and                   *)
(* String::from_utf8_lossy                                                 *)
(***************************************************************************)
Replacement == 65533

\* number of bytes of the sequence a lead byte starts; 0: not a lead byte
Utf8Width(b) ==
    IF b < 128 THEN 1
    ELSE IF b \in 194..223 THEN 2
    ELSE IF b \in 224..239 THEN 3
    ELSE IF b \in 240..244 THEN 4
    ELSE 0

\* the values allowed for byte number k (2..4) of a sequence led by lead
Utf8Allowed(lead, k) ==
    IF k = 2
    THEN CASE lead = 224 -> 160..191
           [] lead = 237 -> 128..159
           [] lead = 240 -> 144..191
           [] lead = 244 -> 128..143
           [] OTHER -> 128..191
    ELSE 128..191

\* how many bytes after position i continue the sequence its byte leads
RECURSIVE Utf8Follow(_, _, _)
Utf8Follow(bytes, i, k) ==
    IF /\ k <= Utf8Width(bytes[i])
       /\ i + k - 1 <= Len(bytes)
       /\ bytes[i + k - 1] \in Utf8Allowed(bytes[i], k)
    THEN 1 + Utf8Follow(bytes, i, k + 1)
    ELSE 0

\* TRUE when a complete well-formed sequence starts at position i
Utf8Complete(bytes, i) ==
    /\ Utf8Width(bytes[i]) > 0
    /\ Utf8Follow(bytes, i, 2) = Utf8Width(bytes[i]) - 1

\* the code point of the complete sequence at position i
Utf8CodePoint(bytes, i) ==
    LET w == Utf8Width(bytes[i])
    IN  CASE w = 1 -> bytes[i]
          [] w = 2 -> (bytes[i] - 192) * 64 + (bytes[i + 1] - 128)
          [] w = 3 -> (bytes[i] - 224) * 4096 + (bytes[i + 1] - 128) * 64
                      + (bytes[i + 2] - 128)
          [] OTHER -> (bytes[i] - 240) * 262144 + (bytes[i + 1] - 128) * 4096
                      + (bytes[i + 2] - 128) * 64 + (bytes[i + 3] - 128)

RECURSIVE Utf8ValidFrom(_, _)
Utf8ValidFrom(bytes, i) ==
    IF i > Len(bytes) THEN TRUE
    ELSE /\ Utf8Complete(bytes, i)
         /\ Utf8ValidFrom(bytes, i + Utf8Width(bytes[i]))

\* String::from_utf8 succeeds
Utf8Valid(bytes) == Utf8ValidFrom(bytes, 1)

\* Decoding from position i; an ill-formed part (the lead byte and the
\* bytes that still continue it) becomes one replacement character.
RECURSIVE Utf8DecodeFrom(_, _)
Utf8DecodeFrom(bytes, i) ==
    IF i > Len(bytes) THEN <<>>
    ELSE IF Utf8Complete(bytes, i)
         THEN <<Utf8CodePoint(bytes, i)>>
              \o Utf8DecodeFrom(bytes, i + Utf8Width(bytes[i]))
         ELSE <<Replacement>>
              \o Utf8DecodeFrom(bytes, i + 1 + Utf8Follow(bytes, i, 2))

\* String::from_utf8_lossy, and the String of from_utf8 when it is Ok
Utf8Lossy(bytes) == Utf8DecodeFrom(bytes, 1)

\* String::from_utf8(output.stdout)?
FromUtf8(bytes) ==
    IF Utf8Valid(bytes) THEN Ok(Utf8DecodeFrom(bytes, 1))
    ELSE Err(<<"invalid utf-8 sequence">>, <<>>)

CapturedResult_swapped(child) ==
    IF child.code = 0 THEN FromUtf8(child.stdout)
    ELSE Err(<<"Go binary failed: ">>, Utf8Lossy(child.stdout))

\* The match on the captured output: status.success() gives the decoded
\* stdout, anything else an error carrying the lossily decoded stderr.
CapturedResult(child) ==
    IF child.code = 0 THEN FromUtf8(child.stdout)
    ELSE Err(<<"Go binary failed: ">>, Utf8Lossy(child.stderr))

\* "OK", "", "e-acute", an invalid byte, a truncated sequence
Stdouts == {<<79, 75>>, <<>>, <<195, 169>>, <<255>>, <<79, 195>>}
\* "", "bad arg", an invalid byte followed by "b"
Stderrs == {<<>>, <<98, 97, 100, 32, 97, 114, 103>>, <<255, 98>>}

Children == {Child(code, out, err) : code \in ExitCodes, out \in Stdouts, err \in Stderrs}

(***************************************************************************)
(* Captured launch: run_from_memory_or_temp and the strategies it tries    *)
(***************************************************************************)
MemFd == 3
MacTempPath == "/tmp/opencode"

\* the platform has a cfg block in run_from_memory_or_temp
HasAnonymous == platform \in {"linux", "macos"}

LaunchStart_tempOnly ==
    /\ pc = "launch"
    /\ launches' = launches + 1
    /\ call' = NewCall("captured")
    /\ pc' = "t_create"
    /\ UNCHANGED <<muxVars, envVars, key, rawMode, events, files>>

\* run_from_memory_or_temp is entered
LaunchStart ==
    /\ pc = "launch"
    /\ launches' = launches + 1
    /\ call' = NewCall("captured")
    /\ pc' = CASE platform = "linux" -> "mem_linux"
              [] platform = "macos" -> "mem_macos"
              [] OTHER -> "t_create"
    /\ UNCHANGED <<muxVars, envVars, key, rawMode, events, files>>

\* run_from_memory_linux
RunFromMemoryLinux ==
    /\ pc = "mem_linux"
    /\ \E memfdOk, writeOk, spawnOk \in BOOLEAN, child \in Children :
          LET l1 == <<Op("memfd_create", memfdOk)>>
              l2 == Append(l1, Op("write", writeOk))
              l3 == Append(l2, Op("spawn", spawnOk))
          IN  call' =
                IF ~memfdOk
                THEN [call EXCEPT !.log = @ \o l1,
                                  !.anon = Err(<<"Failed to create memfd">>, <<>>)]
                ELSE IF ~writeOk
                THEN [call EXCEPT !.log = @ \o Append(l2, Op("close", TRUE)),
                                  !.anon = Err(<<"Failed to write binary data to memfd">>, <<>>)]
                ELSE IF ~spawnOk
                THEN [call EXCEPT !.log = @ \o l3,
                                  !.fds = @ \cup {MemFd},
                                  !.anon = IoErr("spawn")]
                ELSE [call EXCEPT !.log = @ \o l3 \o <<Op("wait", TRUE), Op("close", TRUE)>>,
                                  !.children = @ + 1,
                                  !.anonChild = child,
                                  !.anon = CapturedResult(child)]
    /\ pc' = "mem_match"
    /\ UNCHANGED <<muxVars, envVars, key, rawMode, countVars, files>>

\* run_from_memory_macos
RunFromMemoryMacos ==
    /\ pc = "mem_macos"
    /\ \E mkstempOk, writeOk, fchmodOk, spawnOk, unlinkOk \in BOOLEAN,
          child \in Children :
          LET l1 == <<Op("mkstemp", mkstempOk)>>
              l2 == Append(l1, Op("write", writeOk))
              l3 == Append(l2, Op("fchmod", fchmodOk))
              l4 == l3 \o <<Op("close", TRUE), Op("spawn", spawnOk)>>
              undo == <<Op("close", TRUE), Op("unlink", unlinkOk)>>
              left == IF unlinkOk THEN files \ {MacTempPath}
                      ELSE files \cup {MacTempPath}
          IN  IF ~mkstempOk
              THEN /\ call' = [call EXCEPT !.log = @ \o l1,
                                  !.anon = Err(<<"Failed to create temporary file: errno">>, <<>>)]
                   /\ UNCHANGED files
              ELSE /\ files' = left
                   /\ call' =
                        IF ~writeOk
                        THEN [call EXCEPT !.log = @ \o l2 \o undo,
                                  !.created = @ \cup {MacTempPath},
                                  !.anon = Err(<<"Failed to write to temporary file: errno">>, <<>>)]
                        ELSE IF ~fchmodOk
                        THEN [call EXCEPT !.log = @ \o l3 \o undo,
                                  !.created = @ \cup {MacTempPath},
                                  !.anon = Err(<<"Failed to make file executable: errno">>, <<>>)]
                        ELSE IF ~spawnOk
                        THEN [call EXCEPT !.log = @ \o Append(l4, Op("unlink", unlinkOk)),
                                  !.created = @ \cup {MacTempPath},
                                  !.anon = IoErr("spawn")]
                        ELSE [call EXCEPT !.log = @ \o l4 \o <<Op("wait", TRUE), Op("unlink", unlinkOk)>>,
                                  !.created = @ \cup {MacTempPath},
                                  !.children = @ + 1,
                                  !.anonChild = child,
                                  !.anon = CapturedResult(child)]
    /\ pc' = "mem_match"
    /\ UNCHANGED <<muxVars, envVars, key, rawMode, countVars>>

FallbackLog_silent(e) == [msg |-> <<"falling back to temp file">>, text |-> <<>>]

\* the line eprintln! writes before falling back
FallbackLog(e) ==
    [msg |-> <<IF platform = "linux" THEN "Linux memory execution failed ("
               ELSE "macOS memory execution failed (">>
              \o e.msg \o <<"), falling back to temp file">>,
     text |-> e.text]

\* the match on the memory strategy's result in run_from_memory_or_temp
MemoryMatch ==
    /\ pc = "mem_match"
    /\ IF IsOk(call.anon)
       THEN /\ call' = [call EXCEPT !.result = call.anon, !.returned = TRUE]
            /\ pc' = "returned"
       ELSE /\ call' = [call EXCEPT !.stderr = Append(@, FallbackLog(call.anon))]
            /\ pc' = "t_create"
    /\ UNCHANGED <<muxVars, envVars, key, rawMode, countVars, files>>

FallbackReturn_combined(anonRes, tempRes) ==
    IF IsErr(tempRes) /\ IsErr(anonRes)
    THEN Err(anonRes.msg \o tempRes.msg, anonRes.text \o tempRes.text)
    ELSE tempRes

\* the last expression of run_from_memory_or_temp: the value of
\* run_from_temp_file is the value of the call
FallbackReturn(anonRes, tempRes) == tempRes

\* run_from_temp_file returns res
TempReturn(c, res) ==
    /\ call' = [c EXCEPT !.temp = res, !.result = FallbackReturn(c.anon, res),
                         !.returned = TRUE]
    /\ pc' = "returned"

\* create_temp_executable, called first by run_from_temp_file; an Err
\* returns from run_from_temp_file through `?`.
TempCreate ==
    /\ pc = "t_create"
    /\ \E failAt \in 0..Len(CreateSteps(IsUnix)) :
          LET path == TempPath(pid)
              res == CreateResult(IsUnix, failAt)
              c1 == [call EXCEPT !.log = @ \o CreateLog(IsUnix, failAt),
                                 !.created = IF CreateLeavesFile(failAt)
                                             THEN @ \cup {path} ELSE @]
          IN  /\ files' = IF CreateLeavesFile(failAt) THEN files \cup {path} ELSE files
              /\ IF IsErr(res)
                 THEN TempReturn(c1, res)
                 ELSE /\ call' = c1
                      /\ pc' = "t_run"
    /\ UNCHANGED <<muxVars, envVars, key, rawMode, countVars>>

\* the rest of run_from_temp_file: output(), remove_file, match result
TempRun ==
    /\ pc = "t_run"
    /\ \E spawnOk, removeOk \in BOOLEAN, child \in Children :
          LET path == TempPath(pid)
              c1 == [call EXCEPT !.log = Append(@, Op("spawn", spawnOk))]
              c2 == [c1 EXCEPT !.log = @ \o <<Op("remove_file", removeOk)>>]
              c3 == [c1 EXCEPT !.log = @ \o <<Op("wait", TRUE), Op("remove_file", removeOk)>>,
                               !.children = @ + 1,
                               !.tempChild = child]
          IN  /\ files' = IF removeOk THEN files \ {path} ELSE files
              /\ IF ~spawnOk
                 THEN TempReturn(c2, IoErr("spawn"))
                 ELSE TempReturn(c3, CapturedResult(child))
    /\ UNCHANGED <<muxVars, envVars, key, rawMode, countVars>>

(***************************************************************************)
(* Enter on a BinaryProcess panel: execute_go_binary_fullscreen and        *)
(* run_binary_with_terminal_control                                        *)
(***************************************************************************)
EnterLine_noPrefix(res) ==
    IF IsErr(res) THEN res.msg
    ELSE <<"Go binary executed successfully!">>

\* The line handle_input adds for the result of execute_go_binary_fullscreen
EnterLine(res) ==
    IF IsErr(res) THEN <<"Error: ">> \o res.msg
    ELSE <<"Go binary executed successfully!">>

\* execute_go_binary_fullscreen returns res to handle_input, which adds the
\* line and returns Ok to the event loop.
FinishEnter(c, res) ==
    /\ call' = [c EXCEPT !.finished = TRUE, !.result = res]
    /\ panels' = AddLineToActive(panels, EnterLine(res))
    /\ pc' = "draw"

\* the match on result at the end of execute_go_binary_fullscreen
WrapResult(res) ==
    IF IsErr(res) THEN Err(<<"Failed to execute Go binary: ">> \o res.msg, res.text)
    ELSE Ok(<<>>)

KeyEnterBinary ==
    /\ ReadEvent(KeyOf("Enter", "", "NONE"))
    /\ active_panel \in DOMAIN panels
    /\ panels[active_panel].panel_type = "BinaryProcess"
    /\ launches < MaxLaunches
    /\ launches' = launches + 1
    /\ call' = NewCall("handoff")
    /\ pc' = "handoff"
    /\ UNCHANGED <<muxVars, envVars, rawMode, files>>

\* disable_raw_mode()?; execute!(stdout, Clear, MoveTo)?; stdout.flush()?
HandoffDisable ==
    /\ pc = "handoff"
    /\ \E disableOk, clearOk \in BOOLEAN :
          LET c1 == [call EXCEPT !.log = Append(@, Op("disable_raw_mode", disableOk))]
              c2 == [c1 EXCEPT !.log = Append(@, Op("clear", clearOk))]
          IN  IF ~disableOk
              THEN /\ FinishEnter(c1, IoErr("disable_raw_mode"))
                   /\ UNCHANGED rawMode
              ELSE /\ rawMode' = FALSE
                   /\ IF ~clearOk
                      THEN FinishEnter(c2, IoErr("clear"))
                      ELSE /\ call' = c2
                           /\ pc' = "h_create"
                           /\ UNCHANGED panels
    /\ UNCHANGED <<keyOrder, active_panel, next_panel_id, terminal_size,
                   should_quit, visits, envVars, key, countVars, files>>

\* Multiplexer::create_temp_executable, called first by
\* run_binary_with_terminal_control; an Err returns from it through `?`.
HandoffCreateTemp ==
    /\ pc = "h_create"
    /\ \E failAt \in 0..Len(CreateSteps(IsUnix)) :
          LET path == TempPath(pid)
              res == CreateResult(IsUnix, failAt)
              c1 == [call EXCEPT !.log = @ \o CreateLog(IsUnix, failAt),
                                 !.created = IF CreateLeavesFile(failAt)
                                             THEN @ \cup {path} ELSE @]
          IN  /\ files' = IF CreateLeavesFile(failAt) THEN files \cup {path} ELSE files
              /\ IF IsErr(res)
                 THEN /\ call' = [c1 EXCEPT !.temp = res, !.returned = TRUE]
                      /\ pc' = "h_enable"
                 ELSE /\ call' = c1
                      /\ pc' = "h_run"
    /\ UNCHANGED <<muxVars, envVars, key, rawMode, countVars>>

\* Command::new(&temp_path).args(args).status()?; remove_file; the status
HandoffRunChild ==
    /\ pc = "h_run"
    /\ \E spawnOk, removeOk \in BOOLEAN, code \in ExitCodes :
          LET path == TempPath(pid)
              c1 == [call EXCEPT !.log = Append(@, Op("spawn", spawnOk))]
              c2 == [c1 EXCEPT !.log = @ \o <<Op("wait", TRUE), Op("remove_file", removeOk)>>,
                               !.children = @ + 1]
          IN  IF ~spawnOk
              THEN /\ call' = [c1 EXCEPT !.temp = IoErr("spawn"), !.returned = TRUE]
                   /\ UNCHANGED files
              ELSE /\ files' = IF removeOk THEN files \ {path} ELSE files
                   /\ call' = [c2 EXCEPT !.returned = TRUE,
                                 !.temp = IF code # 0
                                          THEN Err(<<"Go binary exited with error">>, <<>>)
                                          ELSE Ok(<<>>)]
    /\ pc' = "h_enable"
    /\ UNCHANGED <<muxVars, envVars, key, rawMode, countVars>>

\* terminal::enable_raw_mode()?; match result
HandoffEnable ==
    /\ pc = "h_enable"
    /\ \E enableOk \in BOOLEAN :
          LET c1 == [call EXCEPT !.log = Append(@, Op("enable_raw_mode", enableOk))]
          IN  /\ rawMode' = IF enableOk THEN TRUE ELSE rawMode
              /\ FinishEnter(c1, IF enableOk THEN WrapResult(call.temp)
                                  ELSE IoErr("enable_raw_mode"))
    /\ UNCHANGED <<keyOrder, active_panel, next_panel_id, terminal_size,
                   should_quit, visits, envVars, key, countVars, files>>

Next ==
    \/ RunStart
    \/ Draw
    \/ PollTimeout
    \/ PollError
    \/ RunExit
    \/ KeyCtrlQ
    \/ KeyCtrlC
    \/ KeyCtrlN
    \/ KeyEnterManual
    \/ KeyChar
    \/ KeyOther
    \/ Resize
    \/ KeyEnterBinary
    \/ HandoffDisable
    \/ HandoffCreateTemp
    \/ HandoffRunChild
    \/ HandoffEnable
    \/ LaunchStart
    \/ RunFromMemoryLinux
    \/ RunFromMemoryMacos
    \/ MemoryMatch
    \/ TempCreate
    \/ TempRun

Spec == Init /\ [][Next]_vars

\* The event loop is a running thread: a draw or the exit sequence that is
\* due is eventually executed.
FairSpec == Spec /\ WF_vars(Draw) /\ WF_vars(RunExit)

(***************************************************************************)
(* Panel::add_line on its own: one Manual panel that has already received  *)
(* n add_line calls, then up to MaxAdds further calls.                     *)
(***************************************************************************)
\* the line of the i-th earlier call
EarlierLine(i) == <<"Input: ", IF i % 2 = 0 THEN "a" ELSE "q">>

\* numbers of earlier calls: none, a few, and up to the capacity
EarlierCalls == {0, 1, MaxContent - 2, MaxContent - 1, MaxContent}

PanelInit ==
    /\ \E n \in EarlierCalls :
          /\ appended = [i \in 1..n |-> EarlierLine(i)]
          /\ panels = (0 :> [PanelNew(0, "Panel 0") EXCEPT !.content = appended])
    /\ keyOrder = <<0>>
    /\ active_panel = 0
    /\ next_panel_id = 1
    /\ terminal_size = <<80, 24>>
    /\ should_quit = FALSE
    /\ rawMode = FALSE
    /\ pc = "panel"
    /\ events = 0
    /\ launches = 0
    /\ platform = "linux"
    /\ pid = 1
    /\ files = {}
    /\ call = NoCall
    /\ visits = <<0>>
    /\ key = NoKey

\* panel.add_line(line)
PanelAddLine ==
    /\ pc = "panel"
    /\ events < MaxAdds
    /\ \E c \in Chars :
          LET line == <<"Input: ", c>>
          IN  /\ panels' = [panels EXCEPT ![0] = AddLine(panels[0], line)]
              /\ appended' = Append(appended, line)
    /\ events' = events + 1
    /\ UNCHANGED <<keyOrder, active_panel, next_panel_id, terminal_size,
                   should_quit, rawMode, pc, launches, platform, pid, files,
                   call, visits, key>>

PanelNext == PanelAddLine

PanelSpec == PanelInit /\ [][PanelNext]_vars

(***************************************************************************)
(* Properties                                                              *)
(***************************************************************************)
\* positions of the operation name in a call's log
OpsAt(log, name) == {i \in DOMAIN log : log[i].op = name}

\* t occurs in s as a contiguous part
Contains(s, t) ==
    \E i \in 0..(Len(s) - Len(t)) : \A k \in 1..Len(t) : s[i + k] = t[k]

\* the diagnostic r carries the cause e
Carries(r, e) == Contains(r.msg, e.msg) /\ Contains(r.text, e.text)

AnonymousOps == {"memfd_create", "mkstemp"}
MaterializeOps == {"write_all", "sync_all", "metadata", "set_permissions"}
RemoveOps == {"remove_file", "unlink"}

\* C1: after a launch call has returned, in either mode and for every
\* outcome, no temporary file created by that call is left on disk.
C1_NoLeakage == call.returned => call.created \cap files = {}

\* C2: when materializing the temporary executable fails after the file
\* was created, the launch returns the error only after a removal of the
\* file has been attempted.
C2_CleanupBeforePropagate ==
    call.returned =>
        \A i \in DOMAIN call.log :
            (call.log[i].op \in MaterializeOps /\ ~call.log[i].ok)
            => \E j \in DOMAIN call.log : j > i /\ call.log[j].op \in RemoveOps

\* C3: when the anonymous strategy has failed, run_from_memory_or_temp has
\* attempted the temp-file strategy and returns exactly that strategy's
\* result, success or error.
C3_FallbackResult ==
    (call.mode = "captured" /\ call.returned /\ IsErr(call.anon))
    => /\ OpsAt(call.log, "create") # {}
       /\ call.temp # NoneR
       /\ call.result = call.temp

C3_Witness ==
    /\ call.mode = "captured" /\ call.returned /\ IsErr(call.anon)
    /\ call.anonChild.ran /\ call.tempChild.ran
    /\ IsOk(call.result) /\ call.result.text = <<79, 75>>

C5_CombinedDiagnostic ==
    (call.mode = "captured" /\ call.returned /\ IsErr(call.anon) /\ IsErr(call.temp))
    => /\ IsErr(call.result)
       /\ Carries(call.result, call.anon)
       /\ Carries(call.result, call.temp)

\* C5 amended: when both attempts fail, the launch returns the temp-file
\* attempt's error as its fatal result; the anonymous attempt's cause is
\* carried only by the line written to the error stream before the fallback.
C5_TempDiagnosticLogged ==
    (call.mode = "captured" /\ call.returned /\ IsErr(call.anon) /\ IsErr(call.temp))
    => /\ IsErr(call.result)
       /\ Carries(call.result, call.temp)
       /\ Len(call.stderr) = 1
       /\ Carries(call.stderr[1], call.anon)

C5_Witness ==
    /\ call.mode = "captured" /\ call.returned
    /\ call.anon = Err(<<"Failed to create memfd">>, <<>>)
    /\ call.temp = IoErr("write_all")

\* the result r is the one the child run determines
Determined(r, child) ==
    /\ (child.code = 0 /\ Utf8Valid(child.stdout))
          => IsOk(r) /\ r.text = Utf8DecodeFrom(child.stdout, 1)
    /\ (child.code = 0 /\ ~Utf8Valid(child.stdout))
          => IsErr(r) /\ r.msg = <<"invalid utf-8 sequence">>
    /\ child.code # 0
          => /\ IsErr(r)
             /\ r.msg = <<"Go binary failed: ">>
             /\ r.text = Utf8DecodeFrom(child.stderr, 1)

\* C6: in captured mode the result of a strategy is determined by its one
\* child run: exit 0 with valid text gives that decoded stdout, exit 0
\* with invalid text a decode failure, a non-zero exit a fatal result with
\* the decoded stderr; the launch returns the temp-file run's result.
C6_CapturedResult ==
    call.mode = "captured" =>
        /\ call.anonChild.ran => Determined(call.anon, call.anonChild)
        /\ call.tempChild.ran =>
              /\ Determined(call.temp, call.tempChild)
              /\ call.returned => Determined(call.result, call.tempChild)

C6_Witness ==
    /\ call.mode = "captured" /\ call.returned
    /\ call.tempChild.ran /\ call.tempChild.code = 2
    /\ call.tempChild.stderr = <<98, 97, 100, 32, 97, 114, 103>>
    /\ call.tempChild.stdout = <<79, 75>>
    /\ IsErr(call.result)

\* C7: around a handoff the steps are ordered disable raw mode, run child,
\* wait, re-enable raw mode, and once raw mode was disabled re-enabling is
\* attempted before execute_go_binary_fullscreen returns, on every path.
C7_ReenableOnEveryPath ==
    (call.mode = "handoff" /\ call.finished) =>
        \A i \in DOMAIN call.log :
            (call.log[i] = Op("disable_raw_mode", TRUE)) =>
                /\ \E j \in OpsAt(call.log, "enable_raw_mode") : j > i
                /\ \A k \in OpsAt(call.log, "spawn") \cup OpsAt(call.log, "wait") :
                      /\ i < k
                      /\ \A j \in OpsAt(call.log, "enable_raw_mode") : k < j

\* C8: exactly one panel has is_active = true.
C8_ExactlyOneActive ==
    Cardinality({id \in DOMAIN panels : panels[id].is_active}) = 1

C8_Witness ==
    /\ Cardinality(DOMAIN panels) = 3
    /\ Len(visits) >= 3
    /\ active_panel # 0
    /\ pc = "draw"

\* C9: active_panel is a key of panels and names the panel whose
\* is_active flag is true.
C9_ActivePanelIsKey ==
    /\ active_panel \in DOMAIN panels
    /\ \A id \in DOMAIN panels : panels[id].is_active => id = active_panel
    /\ panels[active_panel].is_active

C9_Witness ==
    /\ Cardinality(DOMAIN panels) = 3
    /\ Len(visits) >= 2
    /\ active_panel = 2
    /\ call.finished

\* C10: with N panels and no panel created in between, N switches bring
\* the focus back to where it was and the N focus values in between are
\* all the panels, each once.
C10_CyclicSwitching ==
    LET N == Cardinality(DOMAIN panels)
    IN  \A j \in DOMAIN visits :
            j + N <= Len(visits) =>
                /\ visits[j + N] = visits[j]
                /\ {visits[i] : i \in (j + 1)..(j + N)} = DOMAIN panels

C10_Witness ==
    /\ Cardinality(DOMAIN panels) >= 2
    /\ Len(visits) = Cardinality(DOMAIN panels) + 1

\* the panel created immediately after id, the first-created one after the
\* most recently created one (ids are handed out in creation order)
CreatedAfter(id) ==
    IF id + 1 \in DOMAIN panels THEN id + 1
    ELSE CHOOSE m \in DOMAIN panels : \A o \in DOMAIN panels : m <= o

\* C11: every switch moves the focus from the active panel to the panel
\* created immediately after it, and from the most recently created panel
\* to the first-created one.
C11_InsertionOrderCycle ==
    \A i \in 1..(Len(visits) - 1) : visits[i + 1] = CreatedAfter(visits[i])

\* the last n entries of the sequence s
LastOf(s, n) == SubSeq(s, Len(s) - n + 1, Len(s))

\* C12: after n add_line calls the content is exactly the last
\* min(n, 1000) appended lines in append order; it never exceeds 1000
\* lines, and an append at capacity evicts only the oldest line.
C12_BoundedContent ==
    LET n == Len(appended)
        kept == IF n < MaxContent THEN n ELSE MaxContent
    IN  /\ Len(panels[0].content) <= MaxContent
        /\ panels[0].content = LastOf(appended, kept)

C12_Witness ==
    /\ Len(appended) = MaxContent + 1
    /\ Len(panels[0].content) = MaxContent
    /\ panels[0].content[MaxContent] = <<"Input: ", "a">>
    /\ appended[1] # appended[2]

\* C13 as stated: once Ctrl+Q has been dispatched, should_quit stays true,
\* no further event is polled for or read, and the next iteration goes
\* from the draw to the break and from there to Exited.
C13_QuitReachesExited ==
    [][should_quit =>
          /\ should_quit'
          /\ events' = events
          /\ pc' # "poll"
          /\ (pc = "draw" /\ pc' # pc) => pc' = "break"
          /\ (pc = "break" /\ pc' # pc) => pc' = "exited"]_vars

\* C13 amended: once Ctrl+Q has been dispatched, should_quit stays true
\* and the loop is left in the next iteration without polling for or
\* reading another event; run then ends, in Exited or, when the draw, the
\* disable_raw_mode or the final clear fails, with that I/O error.
C13_QuitLeavesLoop ==
    /\ [][(~should_quit /\ should_quit') =>
             (key' = KeyOf("Char", "q", "CONTROL") /\ pc = "poll" /\ pc' = "draw")]_vars
    /\ [][should_quit =>
             /\ should_quit'
             /\ events' = events
             /\ key' = key
             /\ pc' # "poll"
             /\ (pc = "draw" /\ pc' # pc) => pc' \in {"break", "run_err"}
             /\ (pc = "break" /\ pc' # pc) => pc' \in {"exited", "run_err"}]_vars
    /\ (should_quit ~> pc \in {"exited", "run_err"})

C13_Witness ==
    /\ should_quit
    /\ pc = "exited"
    /\ key = KeyOf("Char", "q", "CONTROL")
    /\ events >= 2

\* C14: when run has ended in Exited the terminal is in cooked mode.
C14_ExitedCooked == pc = "exited" => ~rawMode

C14_Witness ==
    /\ pc = "exited"
    /\ call.mode = "handoff" /\ call.finished
    /\ OpsAt(call.log, "enable_raw_mode") # {}

\* the content new is the content old with exactly one line, line, added
OneLineAdded(old, new, line) ==
    /\ Len(new) = Len(old) + 1
    /\ SubSeq(new, 1, Len(old)) = old
    /\ new[Len(new)] = line

\* every panel but the active one is as it was
OthersUntouched ==
    /\ DOMAIN panels' = DOMAIN panels
    /\ \A id \in DOMAIN panels \ {active_panel} : panels'[id] = panels[id]
    /\ \A f \in {"id", "title", "is_active", "panel_type"} :
          panels'[active_panel][f] = panels[active_panel][f]

\* execute_go_binary_fullscreen is running
InHandoff == call.mode = "handoff" /\ ~call.finished /\ pc # "poll"

\* C15: when the handoff launch started by Enter fails, handle_input
\* returns Ok: exactly one line beginning with "Error: " is added to the
\* active panel, should_quit, the panel set and the focus are unchanged,
\* and the event loop goes on.
C15_LaunchFailureInline ==
    [][(InHandoff /\ call'.finished /\ IsErr(call'.result)) =>
          /\ pc' = "draw"
          /\ UNCHANGED <<should_quit, active_panel, keyOrder, next_panel_id>>
          /\ OthersUntouched
          /\ \E line \in {<<"Error: ">> \o call'.result.msg} :
                OneLineAdded(panels[active_panel].content,
                             panels'[active_panel].content, line)]_vars

C15_Witness ==
    /\ call.mode = "handoff" /\ call.finished
    /\ call.temp = IoErr("spawn")
    /\ IsErr(call.result)
    /\ pc = "draw"
    /\ ~should_quit

\* C16: each panel is stored under its own id, every id is below
\* next_panel_id, next_panel_id never decreases, and a panel creation uses
\* the current next_panel_id and then increases it.
C16_UniqueIds ==
    /\ [](\A id \in DOMAIN panels : panels[id].id = id /\ id < next_panel_id)
    /\ [][/\ next_panel_id' >= next_panel_id
          /\ DOMAIN panels \subseteq DOMAIN panels'
          /\ DOMAIN panels' # DOMAIN panels =>
                /\ DOMAIN panels' = DOMAIN panels \cup {next_panel_id}
                /\ next_panel_id \notin DOMAIN panels
                /\ next_panel_id' = next_panel_id + 1]_vars

C16_Witness ==
    /\ DOMAIN panels = {0, 1, 2}
    /\ next_panel_id = 3
    /\ panels[2].id = 2

C18_CharInput ==
    [][(events' = events + 1 /\ key'.code = "Char" /\ ~IsChord(key')) =>
          /\ UNCHANGED <<keyOrder, active_panel, next_panel_id, terminal_size,
                         should_quit, rawMode, files, call, launches>>
          /\ IF panels[active_panel].panel_type = "Manual"
             THEN /\ OthersUntouched
                  /\ OneLineAdded(panels[active_panel].content,
                                  panels'[active_panel].content,
                                  <<"Input: ", key'.ch>>)
             ELSE panels' = panels]_vars

C18_Witness ==
    /\ key = KeyOf("Char", "a", "CONTROL")
    /\ pc = "draw"
    /\ panels[active_panel].panel_type = "Manual"
    /\ panels[active_panel].content[Len(panels[active_panel].content)]
          = <<"Input: ", "a">>

\* C19: Enter starts a launch exactly when the active panel is a
\* BinaryProcess panel, and that panel gets exactly one line, when the
\* handoff is over; Enter on a Manual panel adds only the acknowledgement
\* line, starts no launch, creates no file and leaves the terminal mode.
C19_EnterLaunchesOnlyOnBinary ==
    /\ [][(events' = events + 1 /\ key'.code = "Enter") =>
             IF panels[active_panel].panel_type = "Manual"
             THEN /\ UNCHANGED <<launches, files, rawMode, call, active_panel>>
                  /\ pc' = "draw"
                  /\ OthersUntouched
                  /\ OneLineAdded(panels[active_panel].content,
                                  panels'[active_panel].content,
                                  <<">>> Enter pressed">>)
             ELSE /\ launches' = launches + 1
                  /\ call'.mode = "handoff" /\ call'.log = <<>>
                  /\ pc' = "handoff"
                  /\ panels' = panels]_vars
    /\ [][(pc = "poll" /\ launches' # launches) =>
             (key'.code = "Enter"
              /\ panels[active_panel].panel_type = "BinaryProcess")]_vars
    /\ [][InHandoff =>
             IF call'.finished
             THEN /\ OthersUntouched
                  /\ Len(panels'[active_panel].content)
                        = Len(panels[active_panel].content) + 1
                  /\ \A i \in OpsAt(call'.log, "spawn") :
                        call'.log[i].ok => OpsAt(call'.log, "wait") # {}
             ELSE panels' = panels]_vars

C19_Witness ==
    /\ key = KeyOf("Enter", "", "NONE")
    /\ call.mode = "handoff" /\ call.finished /\ call.children = 1
    /\ IsOk(call.result)
    /\ Cardinality(DOMAIN panels) = 2

\* C20: one launch call starts the payload at most once; the temp-file
\* fallback is attempted only when the anonymous strategy failed before
\* the payload ran.
C20_PayloadStartedOnce ==
    /\ call.children <= 1
    /\ OpsAt(call.log, "create") # {} => ~call.anonChild.ran

\* C21: once run_from_memory_linux has returned, on any of its exit paths,
\* the descriptor it obtained from memfd_create is closed, and it is still
\* closed when the launch has returned.
C21_DescriptorClosed ==
    (call.mode = "captured" /\ platform = "linux" /\ pc # "mem_linux")
        => MemFd \notin call.fds

====
